---- MODULE Spec2Model ----
(***************************************************************************)
(* Model of Projeto.py: a linear record file (ArquivoRegistros) indexed by *)
(* a binary search tree (ArvoreBinariaBusca), composed by                  *)
(* SistemaGerenciadorBD.                                                   *)
(*                                                                         *)
(* A cpf is a string ordered lexicographically; it is modelled by a        *)
(* natural number, with 0 standing for the empty string "" (the least      *)
(* string).  Registro objects live in the heap `objetos`; the file and the *)
(* tree nodes hold references (indices into `objetos`), so that an         *)
(* in-place change of a record (zerar) is seen through every reference.    *)
(***************************************************************************)
EXTENDS Integers, Sequences, FiniteSets, TLC

\* ---------------------------------------------------------------- bounds
MaxKey == 2
MaxStore == 4
MaxArquivo == 3
MaxCpfArvore == 4
MaxInsercoes == 4
MaxObjetos == 4

\* ------------------------------------------------------------- constants
CpfVazio == 0
NoneRef == 0
Cpfs == CpfVazio..MaxKey
CpfsNaoVazios == Cpfs \ {CpfVazio}
CpfsArvore == CpfVazio..MaxCpfArvore
\* Keys given to a tree that is deep-copied: two distinct non-empty keys
\* (enough for a left and a right child) and the empty one.
CpfsCopia == {CpfVazio, 1, 2}
Nomes == {"n1"}
NomeVazio == ""
DataValida == "data"
DataNone == "None"

\* The empty subtree / absent node (Python None for a No reference).
None == <<>>

\* ------------------------------------------------------------- Registro
Registro(cpf, nome) ==
    [cpf |-> cpf, nome |-> nome, data_nascimento |-> DataValida, deletado |-> FALSE]

\* Variant of zerar that flips the deletado flag instead of setting it.
zerar_alterna(reg) ==
    [reg EXCEPT !.cpf = CpfVazio, !.nome = NomeVazio,
                !.data_nascimento = DataNone, !.deletado = ~reg.deletado]

zerar(reg) ==
    [reg EXCEPT !.cpf = CpfVazio, !.nome = NomeVazio,
                !.data_nascimento = DataNone, !.deletado = TRUE]

\* ------------------------------------------------------------------- No
No(registro, posicao) ==
    [registro |-> registro, posicao |-> posicao, esquerda |-> None, direita |-> None]

\* ---------------------------------------------------- ArvoreBinariaBusca
\* `objs` is the heap through which a node's registro reference is read.

\* Variant of _inserir that overwrites the node of an equal key.
RECURSIVE _inserir_sobrescreve(_, _, _, _)
_inserir_sobrescreve(no_atual, registro, posicao, objs) ==
    IF objs[registro].cpf < objs[no_atual.registro].cpf
    THEN IF no_atual.esquerda = None
         THEN [no_atual EXCEPT !.esquerda = No(registro, posicao)]
         ELSE [no_atual EXCEPT !.esquerda =
                   _inserir_sobrescreve(no_atual.esquerda, registro, posicao, objs)]
    ELSE IF objs[no_atual.registro].cpf < objs[registro].cpf
    THEN IF no_atual.direita = None
         THEN [no_atual EXCEPT !.direita = No(registro, posicao)]
         ELSE [no_atual EXCEPT !.direita =
                   _inserir_sobrescreve(no_atual.direita, registro, posicao, objs)]
    ELSE [no_atual EXCEPT !.registro = registro, !.posicao = posicao]

RECURSIVE _inserir(_, _, _, _)
_inserir(no_atual, registro, posicao, objs) ==
    IF objs[registro].cpf < objs[no_atual.registro].cpf
    THEN IF no_atual.esquerda = None
         THEN [no_atual EXCEPT !.esquerda = No(registro, posicao)]
         ELSE [no_atual EXCEPT !.esquerda = _inserir(no_atual.esquerda, registro, posicao, objs)]
    ELSE IF objs[no_atual.registro].cpf < objs[registro].cpf
    THEN IF no_atual.direita = None
         THEN [no_atual EXCEPT !.direita = No(registro, posicao)]
         ELSE [no_atual EXCEPT !.direita = _inserir(no_atual.direita, registro, posicao, objs)]
    ELSE no_atual

\* TRUE iff the descent of _inserir ends in its last branch, the one that
\* reports "Chave ... ja existe na ABB. Ignorando insercao."
RECURSIVE _inserir_ja_existe(_, _, _)
_inserir_ja_existe(no_atual, registro, objs) ==
    IF objs[registro].cpf < objs[no_atual.registro].cpf
    THEN no_atual.esquerda # None /\ _inserir_ja_existe(no_atual.esquerda, registro, objs)
    ELSE IF objs[no_atual.registro].cpf < objs[registro].cpf
    THEN no_atual.direita # None /\ _inserir_ja_existe(no_atual.direita, registro, objs)
    ELSE TRUE

indice_inserir_ja_existe(r, registro, objs) ==
    r # None /\ _inserir_ja_existe(r, registro, objs)

indice_inserir(r, registro, posicao, objs) ==
    IF r = None THEN No(registro, posicao)
    ELSE _inserir(r, registro, posicao, objs)

RECURSIVE _buscar(_, _, _)
_buscar(no_atual, chave, objs) ==
    IF no_atual = None THEN None
    ELSE IF chave = objs[no_atual.registro].cpf THEN no_atual
    ELSE IF chave < objs[no_atual.registro].cpf
    THEN _buscar(no_atual.esquerda, chave, objs)
    ELSE _buscar(no_atual.direita, chave, objs)

indice_buscar(r, chave, objs) == _buscar(r, chave, objs)

RECURSIVE _minimo(_)
_minimo(no) ==
    IF no.esquerda # None THEN _minimo(no.esquerda) ELSE no

\* Variant of _remover that returns the result of the recursive call on the
\* left instead of linking it below the node.
RECURSIVE _remover_sem_religar(_, _, _)
_remover_sem_religar(no, chave, objs) ==
    IF no = None THEN None
    ELSE IF chave < objs[no.registro].cpf
    THEN _remover_sem_religar(no.esquerda, chave, objs)
    ELSE IF chave > objs[no.registro].cpf
    THEN [no EXCEPT !.direita = _remover_sem_religar(no.direita, chave, objs)]
    ELSE IF no.esquerda = None THEN no.direita
    ELSE IF no.direita = None THEN no.esquerda
    ELSE LET sucessor == _minimo(no.direita)
         IN  [no EXCEPT !.registro = sucessor.registro,
                        !.posicao = sucessor.posicao,
                        !.direita = _remover_sem_religar(no.direita,
                                        objs[sucessor.registro].cpf, objs)]

\* Variant of _remover that promotes the successor but leaves it in the
\* right subtree.
RECURSIVE _remover_sem_remover_sucessor(_, _, _)
_remover_sem_remover_sucessor(no, chave, objs) ==
    IF no = None THEN None
    ELSE IF chave < objs[no.registro].cpf
    THEN [no EXCEPT !.esquerda = _remover_sem_remover_sucessor(no.esquerda, chave, objs)]
    ELSE IF chave > objs[no.registro].cpf
    THEN [no EXCEPT !.direita = _remover_sem_remover_sucessor(no.direita, chave, objs)]
    ELSE IF no.esquerda = None THEN no.direita
    ELSE IF no.direita = None THEN no.esquerda
    ELSE LET sucessor == _minimo(no.direita)
         IN  [no EXCEPT !.registro = sucessor.registro,
                        !.posicao = sucessor.posicao]

\* Variant of _remover whose promotion copies the record but not posicao.
RECURSIVE _remover_sem_posicao(_, _, _)
_remover_sem_posicao(no, chave, objs) ==
    IF no = None THEN None
    ELSE IF chave < objs[no.registro].cpf
    THEN [no EXCEPT !.esquerda = _remover_sem_posicao(no.esquerda, chave, objs)]
    ELSE IF chave > objs[no.registro].cpf
    THEN [no EXCEPT !.direita = _remover_sem_posicao(no.direita, chave, objs)]
    ELSE IF no.esquerda = None THEN no.direita
    ELSE IF no.direita = None THEN no.esquerda
    ELSE LET sucessor == _minimo(no.direita)
         IN  [no EXCEPT !.registro = sucessor.registro,
                        !.direita = _remover_sem_posicao(no.direita,
                                        objs[sucessor.registro].cpf, objs)]

RECURSIVE _remover(_, _, _)
_remover(no, chave, objs) ==
    IF no = None THEN None
    ELSE IF chave < objs[no.registro].cpf
    THEN [no EXCEPT !.esquerda = _remover(no.esquerda, chave, objs)]
    ELSE IF chave > objs[no.registro].cpf
    THEN [no EXCEPT !.direita = _remover(no.direita, chave, objs)]
    ELSE IF no.esquerda = None THEN no.direita
    ELSE IF no.direita = None THEN no.esquerda
    ELSE LET sucessor == _minimo(no.direita)
         IN  [no EXCEPT !.registro = sucessor.registro,
                        !.posicao = sucessor.posicao,
                        !.direita = _remover(no.direita, objs[sucessor.registro].cpf, objs)]

indice_remover(r, chave, objs) == _remover(r, chave, objs)

RECURSIVE _em_ordem(_)
_em_ordem(no) ==
    IF no = None THEN <<>>
    ELSE _em_ordem(no.esquerda) \o <<no.registro>> \o _em_ordem(no.direita)

em_ordem(r) == _em_ordem(r)

RECURSIVE _pre_ordem(_)
_pre_ordem(no) ==
    IF no = None THEN <<>>
    ELSE <<no.registro>> \o _pre_ordem(no.esquerda) \o _pre_ordem(no.direita)

pre_ordem(r) == _pre_ordem(r)

RECURSIVE _pos_ordem(_)
_pos_ordem(no) ==
    IF no = None THEN <<>>
    ELSE _pos_ordem(no.esquerda) \o _pos_ordem(no.direita) \o <<no.registro>>

pos_ordem(r) == _pos_ordem(r)

\* Variant of the loop of percurso_largura that enqueues the right child
\* only when there is no left child.
RECURSIVE percurso_largura_fila_elif(_, _)
percurso_largura_fila_elif(fila, resultado) ==
    IF fila = <<>> THEN resultado
    ELSE LET no == Head(fila)
             f1 == Tail(fila)
             f2 == IF no.esquerda # None THEN Append(f1, no.esquerda)
                   ELSE IF no.direita # None THEN Append(f1, no.direita)
                   ELSE f1
         IN  percurso_largura_fila_elif(f2, Append(resultado, no.registro))

\* Variant of the loop of percurso_largura that enqueues the right child
\* before the left one.
RECURSIVE percurso_largura_fila_direita_primeiro(_, _)
percurso_largura_fila_direita_primeiro(fila, resultado) ==
    IF fila = <<>> THEN resultado
    ELSE LET no == Head(fila)
             f1 == Tail(fila)
             f2 == IF no.direita # None THEN Append(f1, no.direita) ELSE f1
             f3 == IF no.esquerda # None THEN Append(f2, no.esquerda) ELSE f2
         IN  percurso_largura_fila_direita_primeiro(f3, Append(resultado, no.registro))

\* The while loop of percurso_largura: fila is the deque, resultado the list.
RECURSIVE percurso_largura_fila(_, _)
percurso_largura_fila(fila, resultado) ==
    IF fila = <<>> THEN resultado
    ELSE LET no == Head(fila)
             f1 == Tail(fila)
             f2 == IF no.esquerda # None THEN Append(f1, no.esquerda) ELSE f1
             f3 == IF no.direita # None THEN Append(f2, no.direita) ELSE f2
         IN  percurso_largura_fila(f3, Append(resultado, no.registro))

percurso_largura(r) ==
    IF r = None THEN <<>> ELSE percurso_largura_fila(<<r>>, <<>>)

\* Variant of copiar_no that shares the Registro instead of copying it.
RECURSIVE copiar_no_raso(_, _)
copiar_no_raso(no, objs) ==
    IF no = None THEN [no |-> None, objs |-> objs]
    ELSE LET e == copiar_no_raso(no.esquerda, objs)
             d == copiar_no_raso(no.direita, e.objs)
         IN  [no |-> [registro |-> no.registro, posicao |-> no.posicao,
                      esquerda |-> e.no, direita |-> d.no],
              objs |-> d.objs]

\* copiar_no allocates one new Registro per node (copy.deepcopy of the
\* record), in pre-order; it returns the new subtree and the new heap.
RECURSIVE copiar_no(_, _)
copiar_no(no, objs) ==
    IF no = None THEN [no |-> None, objs |-> objs]
    ELSE LET objs1 == Append(objs, objs[no.registro])
             e == copiar_no(no.esquerda, objs1)
             d == copiar_no(no.direita, e.objs)
         IN  [no |-> [registro |-> Len(objs1), posicao |-> no.posicao,
                      esquerda |-> e.no, direita |-> d.no],
              objs |-> d.objs]

deepcopy(r, objs) == copiar_no(r, objs)

destruir(r) == None

RECURSIVE NumNos(_)
NumNos(no) ==
    IF no = None THEN 0 ELSE 1 + NumNos(no.esquerda) + NumNos(no.direita)

\* ------------------------------------------------------ ArquivoRegistros
\* registros is the list of references; positions are zero-based.

\* Variant of ArquivoRegistros.inserir that returns the new length.
arquivo_inserir_retorna_len(regs, registro) ==
    [registros |-> Append(regs, registro), ret |-> Len(Append(regs, registro))]

arquivo_inserir(regs, registro) ==
    [registros |-> Append(regs, registro), ret |-> Len(Append(regs, registro)) - 1]

buscar_por_posicao(regs, posicao) ==
    IF 0 <= posicao /\ posicao < Len(regs) THEN regs[posicao + 1] ELSE NoneRef

arquivo_deletar(regs, posicao, objs) ==
    IF 0 <= posicao /\ posicao < Len(regs)
    THEN [objs EXCEPT ![regs[posicao + 1]] = zerar(objs[regs[posicao + 1]])]
    ELSE objs

\* --------------------------------------------------- SistemaGerenciadorBD
buscar_registro_por_cpf(r, regs, objs, cpf) ==
    LET no == indice_buscar(r, cpf, objs)
    IN  IF no # None
        THEN LET registro == buscar_por_posicao(regs, no.posicao)
             IN  IF registro # NoneRef /\ ~objs[registro].deletado
                 THEN registro ELSE NoneRef
        ELSE NoneRef

RECURSIVE em_ordem_nos(_, _)
em_ordem_nos(no, regs) ==
    IF no = None THEN <<>>
    ELSE em_ordem_nos(no.esquerda, regs)
         \o <<buscar_por_posicao(regs, no.posicao)>>
         \o em_ordem_nos(no.direita, regs)

criar_arquivo_ordenado(r, regs) == em_ordem_nos(r, regs)

\* ------------------------------------------------------------------ state
VARIABLES
    objetos,    \* heap of Registro objects, indexed by reference
    registros,  \* sgbd.arquivo.registros: list of references
    raiz,       \* sgbd.indice.raiz
    ultimo,     \* the last call made on the manager and what it reported
    vivos,      \* history: records inserted under a key absent from the index
                \* and whose key was not passed to remover_registro_por_cpf since
    removidos,  \* history: keys found and deleted, and not inserted since
    copia       \* copy.deepcopy(indice): <<>> before the copy, <<root>> after

vars == <<objetos, registros, raiz, ultimo, vivos, removidos, copia>>

Chamada(op, cpf, nome, msg, posicao, registro, lista) ==
    [op |-> op, cpf |-> cpf, nome |-> nome, msg |-> msg,
     posicao |-> posicao, registro |-> registro, lista |-> lista]

Init ==
    /\ objetos = <<>>
    /\ registros = <<>>
    /\ raiz = None
    /\ ultimo = Chamada("init", CpfVazio, NomeVazio, "", 0, NoneRef, <<>>)
    /\ vivos = {}
    /\ removidos = {}
    /\ copia = <<>>

\* Variant of inserir_registro that takes the appended slot back when the
\* index rejects the key.
inserir_registro_desfaz(cpf, nome) ==
    /\ Len(registros) < MaxStore
    /\ LET objs == Append(objetos, Registro(cpf, nome))
           registro == Len(objs)
           arq == arquivo_inserir(registros, registro)
           posicao == arq.ret
           ja_existe == indice_inserir_ja_existe(raiz, registro, objs)
       IN  /\ objetos' = objs
           /\ registros' = IF ja_existe THEN registros ELSE arq.registros
           /\ raiz' = indice_inserir(raiz, registro, posicao, objs)
           /\ ultimo' = Chamada("inserir_registro", cpf, nome,
                                IF ja_existe THEN "ja_existe" ELSE "inserido",
                                posicao, registro, <<>>)
           /\ vivos' = IF indice_buscar(raiz, cpf, objetos) = None
                       THEN vivos \cup {[registro |-> registro, cpf |-> cpf]}
                       ELSE vivos
           /\ removidos' = removidos \ {cpf}
           /\ UNCHANGED copia

inserir_registro(cpf, nome) ==
    /\ Len(registros) < MaxStore
    /\ LET objs == Append(objetos, Registro(cpf, nome))
           registro == Len(objs)
           arq == arquivo_inserir(registros, registro)
           posicao == arq.ret
           ja_existe == indice_inserir_ja_existe(raiz, registro, objs)
       IN  /\ objetos' = objs
           /\ registros' = arq.registros
           /\ raiz' = indice_inserir(raiz, registro, posicao, objs)
           /\ ultimo' = Chamada("inserir_registro", cpf, nome,
                                IF ja_existe THEN "ja_existe" ELSE "inserido",
                                posicao, registro, <<>>)
           /\ vivos' = IF indice_buscar(raiz, cpf, objetos) = None
                       THEN vivos \cup {[registro |-> registro, cpf |-> cpf]}
                       ELSE vivos
           /\ removidos' = removidos \ {cpf}
           /\ UNCHANGED copia

\* Variant of remover_registro_por_cpf that removes the key from the index
\* before it clears the store record.
remover_registro_por_cpf_indice_primeiro(cpf) ==
    LET no == indice_buscar(raiz, cpf, objetos)
    IN  IF no # None
        THEN LET objs == arquivo_deletar(registros, no.posicao, objetos)
             IN  /\ objetos' = objs
                 /\ raiz' = indice_remover(raiz, cpf, objetos)
                 /\ ultimo' = Chamada("remover_registro_por_cpf", cpf, NomeVazio,
                                      "removido", no.posicao, no.registro, <<>>)
                 /\ vivos' = {v \in vivos : v.cpf # cpf}
                 /\ removidos' = removidos \cup {cpf}
                 /\ UNCHANGED <<registros, copia>>
        ELSE /\ ultimo' = Chamada("remover_registro_por_cpf", cpf, NomeVazio,
                                  "nao_encontrado", 0, NoneRef, <<>>)
             /\ vivos' = {v \in vivos : v.cpf # cpf}
             /\ UNCHANGED <<objetos, registros, raiz, removidos, copia>>

remover_registro_por_cpf(cpf) ==
    LET no == indice_buscar(raiz, cpf, objetos)
    IN  IF no # None
        THEN LET objs == arquivo_deletar(registros, no.posicao, objetos)
             IN  /\ objetos' = objs
                 /\ raiz' = indice_remover(raiz, cpf, objs)
                 /\ ultimo' = Chamada("remover_registro_por_cpf", cpf, NomeVazio,
                                      "removido", no.posicao, no.registro, <<>>)
                 /\ vivos' = {v \in vivos : v.cpf # cpf}
                 /\ removidos' = removidos \cup {cpf}
                 /\ UNCHANGED <<registros, copia>>
        ELSE /\ ultimo' = Chamada("remover_registro_por_cpf", cpf, NomeVazio,
                                  "nao_encontrado", 0, NoneRef, <<>>)
             /\ vivos' = {v \in vivos : v.cpf # cpf}
             /\ UNCHANGED <<objetos, registros, raiz, removidos, copia>>

chamar_buscar_registro_por_cpf(cpf) ==
    /\ ultimo' = Chamada("buscar_registro_por_cpf", cpf, NomeVazio, "", 0,
                         buscar_registro_por_cpf(raiz, registros, objetos, cpf), <<>>)
    /\ UNCHANGED <<objetos, registros, raiz, vivos, removidos, copia>>

chamar_criar_arquivo_ordenado ==
    /\ ultimo' = Chamada("criar_arquivo_ordenado", CpfVazio, NomeVazio, "", 0,
                         NoneRef, criar_arquivo_ordenado(raiz, registros))
    /\ UNCHANGED <<objetos, registros, raiz, vivos, removidos, copia>>

Next ==
    \/ \E cpf \in Cpfs, nome \in Nomes : inserir_registro(cpf, nome)
    \/ \E cpf \in Cpfs : remover_registro_por_cpf(cpf)
    \/ \E cpf \in Cpfs : chamar_buscar_registro_por_cpf(cpf)
    \/ chamar_criar_arquivo_ordenado

Spec == Init /\ [][Next]_vars

\* The same program driven only with non-empty keys.
NextNaoVazio ==
    \/ \E cpf \in CpfsNaoVazios, nome \in Nomes : inserir_registro(cpf, nome)
    \/ \E cpf \in CpfsNaoVazios : remover_registro_por_cpf(cpf)
    \/ \E cpf \in CpfsNaoVazios : chamar_buscar_registro_por_cpf(cpf)
    \/ chamar_criar_arquivo_ordenado

SpecNaoVazio == Init /\ [][NextNaoVazio]_vars

\* A direct call of sgbd.arquivo.deletar(posicao), valid position or not.
chamar_arquivo_deletar(posicao) ==
    /\ objetos' = arquivo_deletar(registros, posicao, objetos)
    /\ ultimo' = Chamada("deletar", CpfVazio, NomeVazio, "", posicao, NoneRef, <<>>)
    /\ UNCHANGED <<registros, raiz, vivos, removidos, copia>>

\* The manager together with direct calls on its record file.
NextArquivo ==
    \/ \E cpf \in Cpfs, nome \in Nomes :
          Len(registros) < MaxArquivo /\ inserir_registro(cpf, nome)
    \/ \E cpf \in Cpfs : remover_registro_por_cpf(cpf)
    \/ \E cpf \in Cpfs : chamar_buscar_registro_por_cpf(cpf)
    \/ chamar_criar_arquivo_ordenado
    \/ \E posicao \in (0 - 1)..Len(registros) : chamar_arquivo_deletar(posicao)

SpecArquivo == Init /\ [][NextArquivo]_vars

\* ------------------------------------------- ArvoreBinariaBusca used alone
\* Direct calls on a tree and on its deep copy, and on their records.
Arvores == {"indice", "copia"}

Existe(qual) == qual = "indice" \/ copia # <<>>

Arvore(qual) == IF qual = "indice" THEN raiz ELSE copia[1]

Atribuir(qual, nova) ==
    IF qual = "indice"
    THEN raiz' = nova /\ UNCHANGED copia
    ELSE copia' = <<nova>> /\ UNCHANGED raiz

arvore_inserir(qual, cpf, nome) ==
    /\ Existe(qual)
    /\ LET objs == Append(objetos, Registro(cpf, nome))
           registro == Len(objs)
           posicao == Len(objetos)
       IN  /\ objetos' = objs
           /\ Atribuir(qual, indice_inserir(Arvore(qual), registro, posicao, objs))
           /\ ultimo' = Chamada("inserir", CpfVazio, NomeVazio, qual, 0, NoneRef, <<>>)
    /\ UNCHANGED <<registros, vivos, removidos>>

arvore_remover(qual, chave) ==
    /\ Existe(qual)
    /\ Atribuir(qual, indice_remover(Arvore(qual), chave, objetos))
    /\ ultimo' = Chamada("remover", chave, NomeVazio, qual, 0, NoneRef, <<>>)
    /\ UNCHANGED <<objetos, registros, vivos, removidos>>

arvore_destruir(qual) ==
    /\ Existe(qual)
    /\ Atribuir(qual, destruir(Arvore(qual)))
    /\ ultimo' = Chamada("destruir", CpfVazio, NomeVazio, qual, 0, NoneRef, <<>>)
    /\ UNCHANGED <<objetos, registros, vivos, removidos>>

arvore_deepcopy ==
    /\ copia = <<>>
    /\ Len(objetos) + NumNos(raiz) <= MaxObjetos
    /\ LET c == deepcopy(raiz, objetos)
       IN  /\ copia' = <<c.no>>
           /\ objetos' = c.objs
    /\ ultimo' = Chamada("deepcopy", CpfVazio, NomeVazio, "indice", 0, NoneRef, <<>>)
    /\ UNCHANGED <<raiz, registros, vivos, removidos>>

\* Registro.zerar called on a record of the tree `qual`.
registro_zerar(qual, registro) ==
    /\ objetos' = [objetos EXCEPT ![registro] = zerar(objetos[registro])]
    /\ ultimo' = Chamada("zerar", CpfVazio, NomeVazio, qual, 0, NoneRef, <<>>)
    /\ UNCHANGED <<raiz, copia, registros, vivos, removidos>>

Percursos == {"pre_ordem", "em_ordem", "pos_ordem", "percurso_largura"}

Percurso(ordem, r) ==
    CASE ordem = "pre_ordem" -> pre_ordem(r)
      [] ordem = "em_ordem" -> em_ordem(r)
      [] ordem = "pos_ordem" -> pos_ordem(r)
      [] OTHER -> percurso_largura(r)

arvore_percorrer(qual, ordem) ==
    /\ Existe(qual)
    /\ ultimo' = Chamada(ordem, CpfVazio, NomeVazio, qual, 0, NoneRef,
                         Percurso(ordem, Arvore(qual)))
    /\ UNCHANGED <<objetos, raiz, copia, registros, vivos, removidos>>

\* A single tree, built and changed through its own methods.
NextArvore ==
    \/ \E cpf \in CpfsArvore, nome \in Nomes :
          Len(objetos) < MaxInsercoes /\ arvore_inserir("indice", cpf, nome)
    \/ \E chave \in CpfsArvore : arvore_remover("indice", chave)
    \/ arvore_destruir("indice")
    \/ \E ordem \in Percursos : arvore_percorrer("indice", ordem)

SpecArvore == Init /\ [][NextArvore]_vars

\* A tree and its deep copy, both changed through their methods, and their
\* records changed in place.
NextCopia ==
    \/ \E qual \in Arvores, cpf \in CpfsCopia \ {CpfVazio}, nome \in Nomes :
          Len(objetos) < MaxObjetos /\ arvore_inserir(qual, cpf, nome)
    \/ \E qual \in Arvores, chave \in CpfsCopia : arvore_remover(qual, chave)
    \/ \E qual \in Arvores : arvore_destruir(qual)
    \/ arvore_deepcopy
    \/ \E qual \in Arvores, i \in 1..MaxObjetos :
          /\ Existe(qual)
          /\ i <= Len(em_ordem(Arvore(qual)))
          /\ registro_zerar(qual, em_ordem(Arvore(qual))[i])

SpecCopia == Init /\ [][NextCopia]_vars

\* ------------------------------------------------- auxiliary definitions
\* The nodes of a tree, each given with the subtree below it.
RECURSIVE Nos(_)
Nos(no) ==
    IF no = None THEN {} ELSE {no} \cup Nos(no.esquerda) \cup Nos(no.direita)

\* The posicao fields of the nodes, in in-order.
RECURSIVE Posicoes(_)
Posicoes(no) ==
    IF no = None THEN <<>>
    ELSE Posicoes(no.esquerda) \o <<no.posicao>> \o Posicoes(no.direita)

\* The keys seen by an in-order traversal of the index.
ChavesEmOrdem == [i \in 1..Len(em_ordem(raiz)) |-> objetos[em_ordem(raiz)[i]].cpf]

EstritamenteCrescente(s) == \A i \in 1..(Len(s) - 1) : s[i] < s[i + 1]

\* ----------------------------------------------------------------- claims

\* C1: every record inserted under a key absent from the index, and whose key
\* was not passed to remover_registro_por_cpf afterwards, is returned by
\* buscar_registro_por_cpf of its key.
C1_LookupInsertConsistency ==
    \A v \in vivos :
        buscar_registro_por_cpf(raiz, registros, objetos, v.cpf) = v.registro

\* C2: in every reachable state the in-order traversal of the index yields
\* keys in strictly ascending order.
C2_BSTInvariant == EstritamenteCrescente(ChavesEmOrdem)

\* C3: after remover_registro_por_cpf found its key, the slot is tombstoned
\* and no index node has that posicao; and no index node ever points at a
\* store record with deletado = TRUE.
C3_NoTombstonedSlotIndexed ==
    /\ (ultimo.op = "remover_registro_por_cpf" /\ ultimo.msg = "removido")
          => /\ objetos[registros[ultimo.posicao + 1]].deletado
             /\ \A n \in Nos(raiz) : n.posicao # ultimo.posicao
    /\ \A n \in Nos(raiz) : ~objetos[registros[n.posicao + 1]].deletado

\* C4: for every key found and deleted and not inserted again since, both
\* buscar_registro_por_cpf and indice.buscar return None.  The empty key is
\* left out: it is the key zerar gives to a tombstoned record.
C4_DeleteCompleteness ==
    \A k \in removidos \ {CpfVazio} :
        /\ buscar_registro_por_cpf(raiz, registros, objetos, k) = NoneRef
        /\ indice_buscar(raiz, k, objetos) = None

\* C5: an insertion of a key that indice.buscar finds is rejected and leaves
\* the tree unchanged: same nodes, same shape, and every existing record keeps
\* its fields.
C5_DuplicateKeyRejected ==
    [][(ultimo'.op = "inserir_registro"
        /\ indice_buscar(raiz, ultimo'.cpf, objetos) # None)
       => /\ ultimo'.msg = "ja_existe"
          /\ raiz' = raiz
          /\ SubSeq(objetos', 1, Len(objetos)) = objetos]_vars

\* C5 witness: an insertion has just been rejected on a tree of several nodes.
C5_Witness ==
    /\ ultimo.op = "inserir_registro"
    /\ ultimo.msg = "ja_existe"
    /\ Cardinality(Nos(raiz)) >= 2

\* C6: criar_arquivo_ordenado returns only live records, each exactly once,
\* in strictly ascending key order.
C6_MaterializeSorted ==
    LET lista == criar_arquivo_ordenado(raiz, registros)
    IN  /\ \A i \in 1..Len(lista) :
               lista[i] # NoneRef /\ ~objetos[lista[i]].deletado
        /\ \A i, j \in 1..Len(lista) : i # j => lista[i] # lista[j]
        /\ EstritamenteCrescente([i \in 1..Len(lista) |-> objetos[lista[i]].cpf])

\* C7: every live record of the store has exactly one index node whose
\* posicao is the record's position.
C7_StoreToIndex ==
    \A p \in 0..(Len(registros) - 1) :
        ~objetos[registros[p + 1]].deletado
          => Cardinality({i \in 1..Len(Posicoes(raiz)) : Posicoes(raiz)[i] = p}) = 1

\* C8: no two nodes of the index carry the same non-empty cpf.
C8_KeyUniqueness ==
    \A i, j \in 1..Len(ChavesEmOrdem) :
        (i # j /\ ChavesEmOrdem[i] # CpfVazio) => ChavesEmOrdem[i] # ChavesEmOrdem[j]

\* C9: ArquivoRegistros.inserir returns the length before the call, the
\* length of registros never decreases, and the object at a position stays
\* the same object in every later state.
C9_StoreAppendOnly ==
    [][/\ Len(registros') >= Len(registros)
       /\ \A p \in 1..Len(registros) : registros'[p] = registros[p]
       /\ (ultimo'.op = "inserir_registro"
             => /\ ultimo'.posicao = Len(registros)
                /\ Len(registros') = Len(registros) + 1
                /\ registros'[ultimo'.posicao + 1] = ultimo'.registro)]_vars

\* C9 witness: the store holds several records, one of which was tombstoned
\* by the last call.
C9_Witness ==
    /\ Len(registros) >= 3
    /\ ultimo.op = "remover_registro_por_cpf"
    /\ ultimo.msg = "removido"
    /\ ultimo.posicao < Len(registros) - 1

\* C10: repeating an inserir_registro that was rejected as a duplicate, or a
\* remover_registro_por_cpf whose key was not found, changes neither the
\* store nor the index.
C10_RetryNoEffect ==
    [][((/\ ultimo.op = "inserir_registro"
         /\ ultimo.msg = "ja_existe"
         /\ ultimo'.op = "inserir_registro"
         /\ ultimo'.cpf = ultimo.cpf
         /\ ultimo'.nome = ultimo.nome)
        \/ (/\ ultimo.op = "remover_registro_por_cpf"
            /\ ultimo.msg = "nao_encontrado"
            /\ ultimo'.op = "remover_registro_por_cpf"
            /\ ultimo'.cpf = ultimo.cpf))
       => /\ registros' = registros
          /\ objetos' = objetos
          /\ raiz' = raiz]_vars

\* A tombstoned record: deletado set, cpf and nome emptied, date cleared.
Tombstone ==
    [cpf |-> CpfVazio, nome |-> NomeVazio, data_nascimento |-> DataNone, deletado |-> TRUE]

\* C11: a store record with deletado = TRUE has its fields cleared, and it
\* stays the same tombstone at the same position after every later call.
C11_TombstoneIrreversible ==
    [][/\ \A p \in 1..Len(registros) :
             objetos[registros[p]].deletado
               => /\ registros'[p] = registros[p]
                  /\ objetos'[registros'[p]] = Tombstone
       /\ \A p \in 1..Len(registros') :
             objetos'[registros'[p]].deletado => objetos'[registros'[p]] = Tombstone]_vars

\* C11 witness: a direct deletar has just run on a store that holds at least
\* two tombstones, so one of them was already there before the call.
C11_Witness ==
    /\ ultimo.op = "deletar"
    /\ 0 <= ultimo.posicao /\ ultimo.posicao < Len(registros)
    /\ Cardinality({p \in 1..Len(registros) : objetos[registros[p]].deletado}) >= 2

\* C12: remover_registro_por_cpf of a key that indice.buscar does not find
\* changes neither the store nor the index; and ArvoreBinariaBusca.remover of
\* a key that no node of the tree carries returns the very same tree.
C12_DeleteAbsentNoOp ==
    [][/\ (ultimo'.op = "remover_registro_por_cpf"
           /\ indice_buscar(raiz, ultimo'.cpf, objetos) = None)
          => /\ ultimo'.msg = "nao_encontrado"
             /\ registros' = registros
             /\ objetos' = objetos
             /\ raiz' = raiz
       /\ \A k \in Cpfs :
             (\A n \in Nos(raiz) : objetos[n.registro].cpf # k)
               => indice_remover(raiz, k, objetos) = raiz]_vars

\* C12 witness: a delete has just reported "not found" on an index of
\* several nodes.
C12_Witness ==
    /\ ultimo.op = "remover_registro_por_cpf"
    /\ ultimo.msg = "nao_encontrado"
    /\ NumNos(raiz) >= 2

\* How many times x occurs in the sequence s.
Ocorrencias(s, x) == Cardinality({i \in 1..Len(s) : s[i] = x})

\* How many nodes of the tree hold the record x.
RECURSIVE NosCom(_, _)
NosCom(no, x) ==
    IF no = None THEN 0
    ELSE (IF no.registro = x THEN 1 ELSE 0) + NosCom(no.esquerda, x) + NosCom(no.direita, x)

\* C13: each of pre_ordem, em_ordem, pos_ordem and percurso_largura returns
\* as many records as the tree has nodes, each node's record once per node,
\* and a traversal call leaves the tree and its records unchanged.
C13_TraversalSizeConservation ==
    [][ultimo'.op \in Percursos
         => /\ raiz' = raiz
            /\ objetos' = objetos
            /\ Len(ultimo'.lista) = NumNos(raiz)
            /\ \A x \in 1..Len(objetos) :
                   Ocorrencias(ultimo'.lista, x) = NosCom(raiz, x)]_vars

\* C13 witness: a breadth-first traversal has just returned the records of
\* a tree that has a node with two children and a node below them.
C13_Witness ==
    /\ ultimo.op = "percurso_largura"
    /\ Len(ultimo.lista) >= 4
    /\ raiz # None
    /\ raiz.esquerda # None
    /\ raiz.direita # None

\* What is observed through a tree: its shape, and in each node the fields of
\* the record and the posicao.
RECURSIVE Observado(_, _)
Observado(no, objs) ==
    IF no = None THEN None
    ELSE [registro |-> objs[no.registro], posicao |-> no.posicao,
          esquerda |-> Observado(no.esquerda, objs),
          direita |-> Observado(no.direita, objs)]

\* The records referenced by the nodes of a tree.
Referencias(no) == {em_ordem(no)[i] : i \in 1..Len(em_ordem(no))}

\* C14: the deep copy has the shape, keys and positions of the original and
\* shares no record with it; afterwards an inserir, remover, destruir or
\* zerar applied to one tree or one of its records changes nothing of what is
\* observed through the other tree.
C14_DeepCopyIndependence ==
    [][/\ ultimo'.op = "deepcopy"
          => /\ Observado(copia'[1], objetos') = Observado(raiz, objetos)
             /\ Observado(raiz', objetos') = Observado(raiz, objetos)
             /\ Referencias(copia'[1]) \cap Referencias(raiz') = {}
       /\ (copia # <<>> /\ ultimo'.op \in {"inserir", "remover", "destruir", "zerar"})
          => /\ ultimo'.msg = "indice"
                  => Observado(copia'[1], objetos') = Observado(copia[1], objetos)
             /\ ultimo'.msg = "copia"
                  => Observado(raiz', objetos') = Observado(raiz, objetos)]_vars

\* C14 witness: after the copy of a tree of two nodes, a record of one tree
\* has just been cleared and the two trees are no longer observed alike.
C14_Witness ==
    /\ copia # <<>>
    /\ ultimo.op = "zerar"
    /\ NumNos(raiz) >= 2
    /\ NumNos(copia[1]) >= 2
    /\ Observado(raiz, objetos) # Observado(copia[1], objetos)

\* The keys of a tree in in-order.
Chaves(no, objs) == [i \in 1..Len(em_ordem(no)) |-> objs[em_ordem(no)[i]].cpf]

\* The path (a sequence of "e" and "d") from the root to the node of key k,
\* in a valid search tree that has such a node.
RECURSIVE Caminho(_, _, _)
Caminho(no, k, objs) ==
    IF k = objs[no.registro].cpf THEN <<>>
    ELSE IF k < objs[no.registro].cpf
    THEN <<"e">> \o Caminho(no.esquerda, k, objs)
    ELSE <<"d">> \o Caminho(no.direita, k, objs)

\* The node at the end of a path.
RECURSIVE NoEm(_, _)
NoEm(no, caminho) ==
    IF caminho = <<>> THEN no
    ELSE IF Head(caminho) = "e" THEN NoEm(no.esquerda, Tail(caminho))
    ELSE NoEm(no.direita, Tail(caminho))

\* C15: in a valid search tree, remover of a key whose node has two children
\* keeps the node where it is, gives it the record and posicao of the
\* leftmost node of its right subtree, takes that node out of the right
\* subtree, and the in-order keys are the previous ones without the key.
C15_SuccessorPromotion ==
    [][(/\ ultimo'.op = "remover"
        /\ EstritamenteCrescente(Chaves(raiz, objetos))
        /\ _buscar(raiz, ultimo'.cpf, objetos) # None
        /\ _buscar(raiz, ultimo'.cpf, objetos).esquerda # None
        /\ _buscar(raiz, ultimo'.cpf, objetos).direita # None)
       => LET k == ultimo'.cpf
              caminho == Caminho(raiz, k, objetos)
              antes == NoEm(raiz, caminho)
              depois == NoEm(raiz', caminho)
          IN  /\ depois.registro = em_ordem(antes.direita)[1]
              /\ depois.posicao = Posicoes(antes.direita)[1]
              /\ depois.esquerda = antes.esquerda
              /\ em_ordem(depois.direita) = Tail(em_ordem(antes.direita))
              /\ NumNos(raiz') = NumNos(raiz) - 1
              /\ Chaves(raiz', objetos')
                   = SelectSeq(Chaves(raiz, objetos), LAMBDA x : x # k)]_vars

\* C15 witness: keys 2, 1, 3 (B, A, C) were inserted and 2 was removed; the
\* root now holds the record of 3 with its posicao, above the node of 1.
C15_Witness ==
    /\ ultimo.op = "remover"
    /\ ultimo.cpf = 2
    /\ Len(objetos) = 3
    /\ raiz # None
    /\ raiz.registro = 3 /\ objetos[3].cpf = 3 /\ raiz.posicao = 2
    /\ raiz.direita = None
    /\ raiz.esquerda = No(2, 1) /\ objetos[2].cpf = 1
    /\ objetos[1].cpf = 2

\* C16: inserir_registro of a key that indice.buscar finds appends exactly
\* one slot to the store, holding the record as passed with no node pointing
\* at it, leaves the earlier slots and the index as they were, and the index
\* still maps the key to the earlier position.
C16_DuplicateNotRolledBack ==
    [][(ultimo'.op = "inserir_registro"
        /\ indice_buscar(raiz, ultimo'.cpf, objetos) # None)
       => /\ Len(registros') = Len(registros) + 1
          /\ SubSeq(registros', 1, Len(registros)) = registros
          /\ objetos'[registros'[Len(registros')]]
               = Registro(ultimo'.cpf, ultimo'.nome)
          /\ objetos'[registros'[Len(registros')]] # Tombstone
          /\ \A n \in Nos(raiz') :
                 /\ n.posicao # Len(registros') - 1
                 /\ n.registro # registros'[Len(registros')]
          /\ raiz' = raiz
          /\ indice_buscar(raiz', ultimo'.cpf, objetos')
               = indice_buscar(raiz, ultimo'.cpf, objetos)
          /\ indice_buscar(raiz', ultimo'.cpf, objetos').posicao
               < Len(registros)]_vars

\* C16 witness: a non-empty key was just rejected; the last store slot holds
\* the rejected record and the index maps the key to an earlier slot.
C16_Witness ==
    /\ ultimo.op = "inserir_registro"
    /\ ultimo.msg = "ja_existe"
    /\ ultimo.cpf # CpfVazio
    /\ ultimo.posicao = Len(registros) - 1
    /\ objetos[registros[Len(registros)]].cpf = ultimo.cpf
    /\ indice_buscar(raiz, ultimo.cpf, objetos) # None
    /\ indice_buscar(raiz, ultimo.cpf, objetos).posicao < ultimo.posicao

\* The height of a tree (0 for the empty tree).
RECURSIVE Altura(_)
Altura(no) ==
    IF no = None THEN 0
    ELSE LET e == Altura(no.esquerda)
             d == Altura(no.direita)
         IN  1 + IF e > d THEN e ELSE d

\* The records of the nodes at depth d, from left to right.
RECURSIVE Nivel(_, _)
Nivel(no, d) ==
    IF no = None THEN <<>>
    ELSE IF d = 0 THEN <<no.registro>>
    ELSE Nivel(no.esquerda, d - 1) \o Nivel(no.direita, d - 1)

\* The levels 0 .. d - 1 one after the other.
RECURSIVE Niveis(_, _)
Niveis(no, d) ==
    IF d = 0 THEN <<>> ELSE Niveis(no, d - 1) \o Nivel(no, d - 1)

\* The keys of a list of records.
ChavesDe(lista, objs) == [i \in 1..Len(lista) |-> objs[lista[i]].cpf]

\* The tree built by inserting the first four records of the heap in order.
ArvoreDosQuatro(objs) ==
    indice_inserir(indice_inserir(indice_inserir(indice_inserir(
        None, 1, 0, objs), 2, 1, objs), 3, 2, objs), 4, 3, objs)

\* The keys B, A, D, C of the example, as 2, 1, 4, 3.
ChavesBADC == <<2, 1, 4, 3>>

\* C17: percurso_largura returns the root first and then the nodes level by
\* level, left to right within each level; on the tree built by inserting
\* B, A, D, C it returns [B, A, D, C], and so does pre_ordem.
C17_BreadthFirstOrder ==
    [][/\ ultimo'.op = "percurso_largura"
          => /\ ultimo'.lista = Niveis(raiz, Altura(raiz))
             /\ raiz # None => ultimo'.lista[1] = raiz.registro
       /\ (/\ ultimo'.op \in {"percurso_largura", "pre_ordem"}
           /\ Len(objetos) = 4
           /\ ChavesDe(<<1, 2, 3, 4>>, objetos) = ChavesBADC
           /\ raiz = ArvoreDosQuatro(objetos))
          => ChavesDe(ultimo'.lista, objetos) = ChavesBADC]_vars

\* C17 witness: percurso_largura has just run on the tree built by inserting
\* B, A, D, C, a tree of three levels.
C17_Witness ==
    /\ ultimo.op = "percurso_largura"
    /\ Len(objetos) = 4
    /\ ChavesDe(<<1, 2, 3, 4>>, objetos) = ChavesBADC
    /\ raiz = ArvoreDosQuatro(objetos)
    /\ Altura(raiz) = 3
    /\ ChavesDe(ultimo.lista, objetos) = ChavesBADC

\* C18: every node of the index has a posicao inside the store and its
\* registro is the very object stored at that posicao, so the calls the
\* manager makes to buscar_por_posicao and deletar are never out of range,
\* and the record a removal clears is at once the key seen through the node.
C18_AliasingInvariant ==
    /\ \A n \in Nos(raiz) :
          /\ 0 <= n.posicao
          /\ n.posicao < Len(registros)
          /\ registros[n.posicao + 1] = n.registro
          /\ buscar_por_posicao(registros, n.posicao) = n.registro
    /\ ultimo.msg = "removido"
          => /\ ultimo.posicao \in 0..(Len(registros) - 1)
             /\ registros[ultimo.posicao + 1] = ultimo.registro
             /\ objetos[ultimo.registro] = Tombstone

\* C18 witness: keys 1, "" and 2 were inserted, 1 was removed, and removing
\* "" then found the root with two children; the root now carries the record
\* and posicao of its former right child, above its left child.
C18_Witness ==
    /\ ultimo.op = "remover_registro_por_cpf"
    /\ ultimo.msg = "removido"
    /\ ultimo.cpf = CpfVazio
    /\ ultimo.posicao = 0
    /\ Len(registros) = 3
    /\ raiz # None
    /\ raiz.posicao = 2
    /\ raiz.registro = registros[3]
    /\ raiz.esquerda # None
    /\ raiz.direita = None

\* Every node of tree a is in tree b at the same place, with the same record,
\* posicao and at least the same children.
RECURSIVE Estende(_, _)
Estende(a, b) ==
    \/ a = None
    \/ /\ b # None
       /\ a.registro = b.registro
       /\ a.posicao = b.posicao
       /\ Estende(a.esquerda, b.esquerda)
       /\ Estende(a.direita, b.direita)

\* C19: with non-empty keys only, no call takes a node or a link out of the
\* index; a removal that finds its key clears the store record first, after
\* which the search of indice.remover finds no node with that key, and the
\* tree and its node count are what they were before the call.
C19_IndexNeverShrinks ==
    [][/\ Estende(raiz, raiz')
       /\ NumNos(raiz') >= NumNos(raiz)
       /\ (ultimo'.op = "remover_registro_por_cpf" /\ ultimo'.msg = "removido")
          => /\ objetos'[ultimo'.registro] = Tombstone
             /\ _buscar(raiz, ultimo'.cpf, objetos') = None
             /\ raiz' = raiz
             /\ NumNos(raiz') = NumNos(raiz)]_vars

\* C19 witness: a non-empty key was just removed and its node is still in a
\* tree of several nodes, holding the cleared record and keeping a child.
C19_Witness ==
    /\ ultimo.op = "remover_registro_por_cpf"
    /\ ultimo.msg = "removido"
    /\ ultimo.cpf # CpfVazio
    /\ NumNos(raiz) >= 2
    /\ \E n \in Nos(raiz) :
          /\ n.registro = ultimo.registro
          /\ objetos[n.registro] = Tombstone
          /\ (n.esquerda # None \/ n.direita # None)

====
